---- MODULE Spec2Model ----
(***************************************************************************)
(* Model of tracer/tracer.py: TraceBuilder (log, bind, set_attribute),     *)
(* Trace (constructor, dict) and get_function_name.                        *)
(*                                                                         *)
(* Python objects live in three heaps, addressed by their position:        *)
(*   dicts    - the attribute dictionaries (a builder holds a REFERENCE    *)
(*              to the dictionary it was given, tracer.py:32)              *)
(*   builders - the TraceBuilder objects                                   *)
(*   traces   - the Trace objects (each holds a REFERENCE to its builder,  *)
(*              tracer.py:107)                                             *)
(* Timestamps are milliseconds after the epoch.  datetime.now(tz=UTC) is   *)
(* the wall clock, which the system may step in either direction between   *)
(* two readings, so every reading is an input of the action that takes it. *)
(***************************************************************************)
EXTENDS Integers, Sequences, FiniteSets, TLC

VARIABLES dicts, builders, traces, ret

vars == <<dicts, builders, traces, ret>>

(* ---------------------------- bounds ----------------------------------- *)
MaxBuilders == 2
MaxTraces == 2
MaxChildren == 2
MaxTime == 1

(* ---------------------------- values ----------------------------------- *)
\* A Python value: a tag and a printable payload.  "Err" and "Ok" are the two
\* variants of result.Result; "plain" is an int or None, "str" a string.
Plain(s) == [tag |-> "plain", v |-> s]
Str(s) == [tag |-> "str", v |-> s]
None == Plain("None")
ErrValue == [tag |-> "Err", v |-> "not found"]
OkValue == [tag |-> "Ok", v |-> "item"]
ReturnValues == {ErrValue, OkValue, Plain("8")}
Keys == {"arg.a", "arg.b"}
AttrValues == {Plain("3"), Plain("5")}

\* Clock readings: every fourth millisecond.
Time == {4 * i : i \in 0..MaxTime}

(* ------------------------- dict semantics ------------------------------ *)
\* A dict is the sequence of its <<key, value>> items in insertion order.
DictKeys(items) == [i \in 1..Len(items) |-> items[i][1]]

DictHas(items, k) == \E i \in 1..Len(items) : items[i][1] = k

DictGet(items, k) == items[CHOOSE i \in 1..Len(items) : items[i][1] = k][2]

\* A d[k] = v that drops the other keys.
DictSet_Replace(items, k, v) == << <<k, v>> >>

\* A d[k] = v that moves an overwritten key to the end.
DictSet_MoveToEnd(items, k, v) ==
    Append(SelectSeq(items, LAMBDA it : it[1] # k), <<k, v>>)

\* d[k] = v : an existing key keeps its position, a new key goes last.
DictSet(items, k, v) ==
    IF DictHas(items, k)
    THEN [i \in 1..Len(items) |-> IF items[i][1] = k THEN <<k, v>> ELSE items[i]]
    ELSE Append(items, <<k, v>>)

\* The dict literal a caller passes to the constructor (example_add.py:6).
InitialItems == { << <<"arg.a", Plain("3")>> >> }

(* ----------------------- get_function_name ----------------------------- *)
\* A frame: the function's name and the locals "self" and "cls".  self is
\* the class name of the object ("None" when the local is absent or None);
\* cls is the __name__ of the class, "None", or NonClass for an object that
\* has no __name__ (a local that happens to be called cls).
Frame(f, s, c) == [function |-> f, self |-> s, cls |-> c]

NonClass == "<object without __name__>"

GfnFrame == Frame("get_function_name", "None", "None")
InitFrame == Frame("__init__", "TraceBuilder", "None")

\* The frames above TraceBuilder.__init__, innermost first.
CallerStacks ==
    { << Frame("add", "None", "None"), Frame("<module>", "None", "None") >> }

\* The frame chain inspect.currentframe() gives inside get_function_name
\* when the constructor is called from the stack s.
FrameChain(s) == <<GfnFrame, InitFrame>> \o s

\* What a call gives: a value returned or an exception raised.
Return(v) == [outcome |-> "returned", value |-> v]
Raise(e) == [outcome |-> "raised", value |-> e]

\* frames: the whole stack, innermost (get_function_name's own) first; the
\* empty sequence stands for inspect.currentframe() returning None.
RECURSIVE WalkBack(_, _, _)
WalkBack(frames, idx, n) ==
    IF n = 0 THEN idx
    ELSE IF idx + 1 > Len(frames) THEN 0
    ELSE WalkBack(frames, idx + 1, n - 1)

\* A get_function_name that goes up the stack once only.
get_function_name_OneFrame(frames) ==
    IF Len(frames) = 0 THEN Return("<N/A>")
    ELSE LET idx == WalkBack(frames, 1, 1) IN
         IF idx = 0 THEN Return("<N/A>")
         ELSE LET fr == frames[idx] IN
              IF fr.self # "None" THEN Return(fr.self \o "." \o fr.function)
              ELSE IF fr.cls # "None"
              THEN IF fr.cls = NonClass
                   THEN Raise("AttributeError: object has no attribute '__name__'")
                   ELSE Return(fr.cls \o "." \o fr.function)
              ELSE Return(fr.function)

get_function_name(frames) ==
    IF Len(frames) = 0 THEN Return("<N/A>")
    ELSE LET idx == WalkBack(frames, 1, 2) IN
         IF idx = 0 THEN Return("<N/A>")
         ELSE LET fr == frames[idx] IN
              IF fr.self # "None" THEN Return(fr.self \o "." \o fr.function)
              ELSE IF fr.cls # "None"
              THEN IF fr.cls = NonClass
                   THEN Raise("AttributeError: object has no attribute '__name__'")
                   ELSE Return(fr.cls \o "." \o fr.function)
              ELSE Return(fr.function)

(* ------------------------------ state ---------------------------------- *)
BuilderIds == 1..Len(builders)
TraceIds == 1..Len(traces)
DictIds == 1..Len(dicts)

\* The last call: the operation, the object it was made on (for the
\* constructor, the builder made; for json, the trace), whether it returned
\* or raised, the value returned (None for bind, whose Trace is the last one
\* of `traces`) or the exception raised, and, for the constructor, the frame
\* chain it was called with.
Returned(op, self, value) ==
    [op |-> op, self |-> self, outcome |-> "returned", value |-> value,
     frames |-> <<>>]

Raised(op, self, exception) ==
    [op |-> op, self |-> self, outcome |-> "raised",
     value |-> Str(exception), frames |-> <<>>]

Init ==
    /\ dicts = <<>>
    /\ builders = <<>>
    /\ traces = <<>>
    /\ ret = Returned("none", 0, None)

(* --------------------------- TraceBuilder ------------------------------ *)
\* The `attributes` argument of the constructor: None, a dict the caller
\* builds for this call, or a dict the caller already holds.
AttributeArgs ==
    {[kind |-> "none", items |-> <<>>, ref |-> 0]}
    \cup {[kind |-> "new", items |-> c, ref |-> 0] : c \in InitialItems}
    \cup {[kind |-> "ref", items |-> <<>>, ref |-> d] :
             d \in {e \in DictIds : dicts[e].owner = "caller"}}

\* TraceBuilder.__init__, called with the frame chain `frames`.  When
\* get_function_name raises, so does the constructor: no builder is made (a
\* dict the caller built for the call stays with the caller).
Create(attributes, now1, now2, frames) ==
    /\ Len(builders) < MaxBuilders
    /\ LET d == IF attributes.kind = "ref" THEN attributes.ref ELSE Len(dicts) + 1
           name == get_function_name(frames)
       IN IF name.outcome = "raised"
          THEN /\ dicts' = IF attributes.kind = "new"
                           THEN Append(dicts, [items |-> attributes.items,
                                               owner |-> "caller"])
                           ELSE dicts
               /\ builders' = builders
               /\ ret' = [Raised("create", 0, name.value) EXCEPT !.frames = frames]
          ELSE /\ dicts' = IF attributes.kind = "none"
                           THEN Append(dicts, [items |-> <<>>, owner |-> "builder"])
                           ELSE IF attributes.kind = "new"
                           THEN Append(dicts, [items |-> attributes.items,
                                               owner |-> "caller"])
                           ELSE dicts
               /\ builders' = Append(builders,
                     [func_name |-> name.value,
                      attributes |-> d,
                      child_traces |-> <<>>,
                      start_time |-> now1,
                      end_time |-> now2])
               /\ ret' = [Returned("create", Len(builders) + 1, None)
                            EXCEPT !.frames = frames]
    /\ UNCHANGED traces

\* A log that puts the child first.
log_Prepend(b, t) ==
    /\ Len(builders[b].child_traces) < MaxChildren
    /\ builders' = [builders EXCEPT ![b].child_traces = <<t>> \o @]
    /\ ret' = Returned("log", b, traces[t].return_value)
    /\ UNCHANGED <<dicts, traces>>

\* TraceBuilder.log
log(b, t) ==
    /\ Len(builders[b].child_traces) < MaxChildren
    /\ builders' = [builders EXCEPT ![b].child_traces = Append(@, t)]
    /\ ret' = Returned("log", b, traces[t].return_value)
    /\ UNCHANGED <<dicts, traces>>

\* A Trace.__init__ that also takes the failure of a child for its own.
NewTrace_Propagate(trace_builder, builder, return_value) ==
    [trace_builder |-> trace_builder,
     return_value |-> return_value,
     duration |-> builder.end_time - builder.start_time,
     status |-> IF \/ return_value.tag = "Err"
                   \/ \E i \in DOMAIN builder.child_traces :
                         traces[builder.child_traces[i]].status = "ERROR"
                THEN "ERROR" ELSE "OK"]

\* A Trace.__init__ that takes everything but Ok for a failure.
NewTrace_NotOk(trace_builder, builder, return_value) ==
    [trace_builder |-> trace_builder,
     return_value |-> return_value,
     duration |-> builder.end_time - builder.start_time,
     status |-> IF return_value.tag # "Ok" THEN "ERROR" ELSE "OK"]

\* Trace.__init__
NewTrace(trace_builder, builder, return_value) ==
    [trace_builder |-> trace_builder,
     return_value |-> return_value,
     duration |-> builder.end_time - builder.start_time,
     status |-> IF return_value.tag = "Err" THEN "ERROR" ELSE "OK"]

\* TraceBuilder.bind
bind(b, value, now) ==
    /\ Len(traces) < MaxTraces
    /\ builders' = [builders EXCEPT ![b].end_time = now]
    /\ traces' = Append(traces, NewTrace(b, builders'[b], value))
    /\ ret' = Returned("bind", b, None)
    /\ UNCHANGED dicts

\* TraceBuilder.set_attribute
set_attribute(b, key, value) ==
    /\ dicts' = [dicts EXCEPT ![builders[b].attributes].items = DictSet(@, key, value)]
    /\ ret' = Returned("set_attribute", b, None)
    /\ UNCHANGED <<builders, traces>>

(* ------------------------------ Trace ---------------------------------- *)
\* str(datetime): the microseconds are printed only when they are not zero.
Pad3(n) == IF n < 10 THEN "00" \o ToString(n)
           ELSE IF n < 100 THEN "0" \o ToString(n) ELSE ToString(n)

StrTime(ms) ==
    IF ms = 0 THEN "1970-01-01 00:00:00+00:00"
    ELSE "1970-01-01 00:00:00." \o Pad3(ms) \o "000+00:00"

\* f"{(duration / timedelta(milliseconds=1)) / 1000:.2f} seconds"
Pad2(n) == IF n < 10 THEN "0" \o ToString(n) ELSE ToString(n)

FormatDuration(ms) ==
    LET mag == IF ms < 0 THEN 0 - ms ELSE ms
        centis == (mag + 5) \div 10
    IN (IF ms < 0 THEN "-" ELSE "")
       \o ToString(centis \div 100) \o "." \o Pad2(centis % 100) \o " seconds"

\* Trace.dict
TraceDict(t) ==
    LET tb == builders[traces[t].trace_builder] IN
    [function_name |-> tb.func_name,
     status |-> traces[t].status,
     start_time |-> StrTime(tb.start_time),
     end_time |-> StrTime(tb.end_time),
     duration |-> FormatDuration(traces[t].duration),
     attributes |-> dicts[tb.attributes].items,
     return_value |-> traces[t].return_value,
     children |-> tb.child_traces]

(* --------------------------- Trace.json -------------------------------- *)
\* Values that json.dumps cannot represent natively, or only in part.
\*   Object(c)    an instance of class c with a __dict__
\*   Mapping(n)   a dict, natively representable when its keys are
\*   TraceValue   a Trace (the children of a builder are such values)
Object(c) == [tag |-> "object", v |-> c]
Mapping(n) == [tag |-> "dict", v |-> n]
TraceValue(t) == [tag |-> "Trace", v |-> ToString(t)]
TraceOf(o) == CHOOSE t \in TraceIds : ToString(t) = o.v

\* The __dict__ of the instances: Item is the dataclass of example_item.py,
\* Request holds an Item and a result.
DunderDict(o) ==
    CASE o.v = "Item" ->
           << <<"id", Str("seUfO284e")>>, <<"name", Str("Salt Shaker")>>,
              <<"price", Plain("24")>> >>
      [] o.v = "Request" ->
           << <<"item", Object("Item")>>, <<"result", ErrValue>> >>

\* The items of the dicts used as values; "(1, 2)" is a tuple key.
MappingItems(o) ==
    CASE o.v = "by_pair" -> << <<"(1, 2)", Plain("3")>> >>
      [] o.v = "by_name" -> << <<"first", ErrValue>> >>

TupleKeys == {"(1, 2)"}

\* getattr(object, "__dict__", None) is not None.  Ok and Err have __slots__.
HasDunderDict(o) == o.tag \in {"object", "Trace"}

\* repr(object)
Repr(o) == o.tag \o "('" \o o.v \o "')"

\* A safe_serialize without the __dict__ tier.
safe_serialize_NoDict(o) ==
    IF o.tag = "Trace" THEN [kind |-> "TraceDict", v |-> o.v]
    ELSE [kind |-> "repr", v |-> Repr(o)]

\* safe_serialize: what it returns is the record of a trace (Trace.dict),
\* the __dict__ of the object, or a string.
safe_serialize(o) ==
    IF o.tag = "Trace" THEN [kind |-> "TraceDict", v |-> o.v]
    ELSE IF HasDunderDict(o) THEN [kind |-> "__dict__", v |-> o.v]
    ELSE [kind |-> "repr", v |-> Repr(o)]

\* The structured data json.dumps renders: a number or null, a string, an
\* object (its <<key, node>> items in order), an array (its <<index, node>>
\* items), or the exception that the encoding raised.
JPrim(text) == [kind |-> "prim", text |-> text, items |-> <<>>]
JString(text) == [kind |-> "str", text |-> text, items |-> <<>>]
JRaise(e) == [kind |-> "raise", text |-> e, items |-> <<>>]

\* An object or array of the encoded items, unless encoding one of them
\* raised: then the first exception.
Collect(kind, pairs) ==
    LET bad == {i \in DOMAIN pairs : pairs[i][2].kind = "raise"} IN
    IF bad # {}
    THEN pairs[CHOOSE i \in bad : \A j \in bad : i <= j][2]
    ELSE [kind |-> kind, text |-> "", items |-> pairs]

Circular == "ValueError: Circular reference detected"
BadKey == "TypeError: keys must be str, int, float, bool or None, not tuple"

\* json.dumps(..., default=safe_serialize) with check_circular: markers holds
\* the containers and objects that are being encoded.
RECURSIVE EncodeValue(_, _), EncodeMapping(_, _, _), EncodeList(_, _), EncodeRecord(_, _)

\* A dict: every key must be a str (or a number); a value is encoded in turn.
EncodeMapping(id, items, markers) ==
    IF id \in markers THEN JRaise(Circular)
    ELSE Collect("obj",
           [i \in DOMAIN items |->
               <<items[i][1],
                 IF items[i][1] \in TupleKeys THEN JRaise(BadKey)
                 ELSE EncodeValue(items[i][2], markers \cup {id})>>])

\* The _child_traces list of builder b: its elements are Trace objects.
EncodeList(b, markers) ==
    LET id == "list:" \o ToString(b)
        c == builders[b].child_traces
    IN IF id \in markers THEN JRaise(Circular)
       ELSE Collect("arr",
              [i \in DOMAIN c |->
                  <<ToString(i), EncodeValue(TraceValue(c[i]), markers \cup {id})>>])

\* The dict that Trace.dict returns for trace t (a new dict at each call).
EncodeRecord(t, markers) ==
    LET r == TraceDict(t)
        b == traces[t].trace_builder
    IN Collect("obj",
         << <<"function_name", JString(r.function_name)>>,
            <<"status", JString(r.status)>>,
            <<"start_time", JString(r.start_time)>>,
            <<"end_time", JString(r.end_time)>>,
            <<"duration", JString(r.duration)>>,
            <<"attributes",
              EncodeMapping("dict:" \o ToString(builders[b].attributes),
                            r.attributes, markers)>>,
            <<"return_value", EncodeValue(r.return_value, markers)>>,
            <<"children", EncodeList(b, markers)>> >>)

\* Any value: natively, or through the default hook safe_serialize.
EncodeValue(o, markers) ==
    IF o.tag = "plain" THEN JPrim(IF o.v = "None" THEN "null" ELSE o.v)
    ELSE IF o.tag = "str" THEN JString(o.v)
    ELSE IF o.tag = "dict"
    THEN EncodeMapping("mapping:" \o o.v, MappingItems(o), markers)
    ELSE LET id == o.tag \o ":" \o o.v IN
         IF id \in markers THEN JRaise(Circular)
         ELSE LET d == safe_serialize(o) IN
              IF d.kind = "TraceDict"
              THEN EncodeRecord(TraceOf(o), markers \cup {id})
              ELSE IF d.kind = "__dict__"
              THEN EncodeMapping("__dict__:" \o d.v, DunderDict(o), markers \cup {id})
              ELSE JString(d.v)

\* The text of the structured data, with indent=2.
RECURSIVE Indent(_)
Indent(level) == IF level = 0 THEN "" ELSE "  " \o Indent(level - 1)

RECURSIVE Dump(_, _), DumpItems(_, _, _, _)
DumpItems(kind, items, i, level) ==
    Indent(level)
    \o (IF kind = "obj" THEN "\"" \o items[i][1] \o "\": " ELSE "")
    \o Dump(items[i][2], level)
    \o (IF i < Len(items) THEN ",\n" \o DumpItems(kind, items, i + 1, level) ELSE "")

Dump(n, level) ==
    IF n.kind = "prim" THEN n.text
    ELSE IF n.kind = "str" THEN "\"" \o n.text \o "\""
    ELSE IF Len(n.items) = 0 THEN (IF n.kind = "obj" THEN "{}" ELSE "[]")
    ELSE (IF n.kind = "obj" THEN "{" ELSE "[") \o "\n"
         \o DumpItems(n.kind, n.items, 1, level + 1) \o "\n"
         \o Indent(level) \o (IF n.kind = "obj" THEN "}" ELSE "]")

\* The structured data of Trace.json, and Trace.json itself.
JsonData(t) == EncodeRecord(t, {})

to_json(t) ==
    LET n == JsonData(t) IN
    IF n.kind = "raise" THEN Raise(n.text) ELSE Return(Dump(n, 0))

\* Trace.json
json(t) ==
    /\ ret' = LET r == to_json(t) IN
              IF r.outcome = "raised" THEN Raised("json", t, r.value)
              ELSE Returned("json", t, Str(r.value))
    /\ UNCHANGED <<dicts, builders, traces>>

(* --------------------------- specification ----------------------------- *)
\* The calls a client can make, with their arguments drawn from the given
\* sets.
DoCreate(Kinds, T, Chains) ==
    \E a \in {x \in AttributeArgs : x.kind \in Kinds}, now1 \in T, now2 \in T,
       f \in Chains :
        Create(a, now1, now2, f)

DoLog == \E b \in BuilderIds, t \in TraceIds : log(b, t)

DoBind(Vals, T) == \E b \in BuilderIds, v \in Vals, now \in T : bind(b, v, now)

DoSetAttribute(Ks, AVs) ==
    \E b \in BuilderIds, k \in Ks, v \in AVs : set_attribute(b, k, v)

\* One representative of each argument, for the specifications that vary
\* another one.
OneTime == {0}
OneValue == {Plain("8")}
OneKey == {"arg.a"}
OneAttrValue == {Plain("5")}
OneChain == {FrameChain(s) : s \in CallerStacks}

\* Spec: every return value; one clock reading, one attribute.
CreateCall == DoCreate({"none"}, OneTime, OneChain)
LogCall == DoLog
BindCall == DoBind(ReturnValues, OneTime)
SetAttributeCall == DoSetAttribute(OneKey, OneAttrValue)

Next == CreateCall \/ LogCall \/ BindCall \/ SetAttributeCall

Spec == Init /\ [][Next]_vars

\* SpecClock: every clock reading; one return value, one attribute.
ClockCreate == DoCreate({"none"}, Time, OneChain)
ClockLog == DoLog
ClockBind == DoBind(OneValue, Time)
ClockSetAttribute == DoSetAttribute(OneKey, OneAttrValue)

NextClock == ClockCreate \/ ClockLog \/ ClockBind \/ ClockSetAttribute

SpecClock == Init /\ [][NextClock]_vars

\* SpecAttrs: every attributes argument, key and value; one clock reading,
\* one return value.
AttrsCreate == DoCreate({"none", "new", "ref"}, OneTime, OneChain)
AttrsLog == DoLog
AttrsBind == DoBind(OneValue, OneTime)
AttrsSetAttribute == DoSetAttribute(Keys, AttrValues)

NextAttrs == AttrsCreate \/ AttrsLog \/ AttrsBind \/ AttrsSetAttribute

SpecAttrs == Init /\ [][NextAttrs]_vars

\* SpecName: every call stack; one clock reading, return value, attribute.
\* The stacks: no Python caller; a module-level call; a function called from
\* the module; a method called from a function; a classmethod; a function
\* with a local cls that is no class; a method with such a local.
NameStacks ==
    { <<>>,
      << Frame("<module>", "None", "None") >>,
      << Frame("add", "None", "None"), Frame("<module>", "None", "None") >>,
      << Frame("save", "Item", "None"), Frame("process_request", "None", "None") >>,
      << Frame("load", "None", "Item"), Frame("save", "Item", "None") >>,
      << Frame("make", "None", NonClass), Frame("<module>", "None", "None") >>,
      << Frame("copy", "Item", NonClass), Frame("make", "None", NonClass) >> }

\* <<>> : inspect.currentframe() returns None.
NameChains == {<<>>} \cup {FrameChain(st) : st \in NameStacks}

NameCreate == DoCreate({"none"}, OneTime, NameChains)
NameLog == DoLog
NameBind == DoBind(OneValue, OneTime)
NameSetAttribute == DoSetAttribute(OneKey, OneAttrValue)

NextName == NameCreate \/ NameLog \/ NameBind \/ NameSetAttribute

SpecName == Init /\ [][NextName]_vars

DoJson == \E t \in TraceIds : json(t)

\* SpecJson: the values Trace.json has to render, and Trace.json; one clock
\* reading.
JsonReturnValues == {ErrValue, Object("Item")}
JsonAttrValues == {Object("Request"), Mapping("by_pair"), Mapping("by_name")}

JsonCreate == DoCreate({"none"}, OneTime, OneChain)
JsonLog == DoLog
JsonBind == DoBind(JsonReturnValues, OneTime)
JsonSetAttribute ==
    DoSetAttribute(OneKey, JsonAttrValues \cup {TraceValue(t) : t \in TraceIds})
JsonCall == DoJson

NextJson == JsonCreate \/ JsonLog \/ JsonBind \/ JsonSetAttribute \/ JsonCall

SpecJson == Init /\ [][NextJson]_vars

(* ------------------------------ claims --------------------------------- *)
\* The builder was finalized: bind has produced a Trace from it.
Finalized(b) == \E t \in TraceIds : traces[t].trace_builder = b

TracesOf(b) == {t \in TraceIds : traces[t].trace_builder = b}

\* C1: a log call returns normally the value of one trace, the child, and
\* leaves the builder's children equal to the previous children with that
\* child appended (no other builder's children change).
C1_LogReturnsValueAndAppends ==
    [][ret'.op = "log" =>
        /\ ret'.outcome = "returned"
        /\ ret'.self \in BuilderIds
        /\ \E t \in TraceIds :
            /\ ret'.value = traces[t].return_value
            /\ builders'[ret'.self].child_traces
                 = Append(builders[ret'.self].child_traces, t)
        /\ \A b \in BuilderIds \ {ret'.self} :
            builders'[b].child_traces = builders[b].child_traces]_vars

\* A log onto a builder that had a different child already, returning a
\* failure value.
C1_Witness ==
    /\ ret.op = "log"
    /\ ret.value = ErrValue
    /\ LET c == builders[ret.self].child_traces IN
          /\ Len(c) = 2
          /\ c[1] # c[2]
          /\ traces[c[2]].return_value = ErrValue

\* C2: a trace has status ERROR exactly when its value is the Err variant;
\* for Ok and for a plain value the status is OK.
C2_StatusErrorIffErr ==
    \A t \in TraceIds :
        /\ traces[t].status \in {"OK", "ERROR"}
        /\ TraceDict(t).status = "ERROR" <=> traces[t].return_value.tag = "Err"
        /\ traces[t].return_value.tag \in {"Ok", "plain"} => TraceDict(t).status = "OK"

\* A failure and a plain value have both been bound.
C2_Witness ==
    \E t1, t2 \in TraceIds :
        /\ traces[t1].return_value = ErrValue /\ traces[t1].status = "ERROR"
        /\ traces[t2].return_value.tag = "plain" /\ traces[t2].status = "OK"

\* The fields of a trace's structured record that the claims speak of.
ChildrenOf(t) == TraceDict(t).children
AttributesOf(t) == TraceDict(t).attributes

\* The timestamp a str(datetime) of the record stands for.
ParseTime(str) == CHOOSE ms \in Time : StrTime(ms) = str

\* C3: the children of a trace's record are, in order, exactly the traces
\* logged on its builder before bind: the list the record shows when the
\* trace is made never changes afterwards.
C3_ChildrenAreThoseLoggedBeforeBind ==
    [][\A t \in TraceIds : ChildrenOf(t)' = ChildrenOf(t)]_vars

C5_SecondBindIsRejected ==
    [][ret'.op = "bind" /\ Finalized(ret'.self) =>
        /\ ret'.outcome = "raised"
        /\ traces' = traces
        /\ \A t \in TracesOf(ret'.self) :
            /\ TraceDict(t)'.start_time = TraceDict(t).start_time
            /\ TraceDict(t)'.end_time = TraceDict(t).end_time
            /\ TraceDict(t)'.duration = TraceDict(t).duration
            /\ TraceDict(t)'.status = TraceDict(t).status
            /\ TraceDict(t)'.return_value = TraceDict(t).return_value]_vars

\* C6: a set_attribute on a finalized builder raises and leaves the
\* attributes of the builder's trace record as they were.
C6_SetAttributeAfterBindIsRejected ==
    [][ret'.op = "set_attribute" /\ Finalized(ret'.self) =>
        /\ ret'.outcome = "raised"
        /\ \A t \in TracesOf(ret'.self) : AttributesOf(t)' = AttributesOf(t)]_vars

\* C7: a log on a finalized builder raises and leaves the children of the
\* builder's trace record as they were.
C7_LogAfterBindIsRejected ==
    [][ret'.op = "log" /\ Finalized(ret'.self) =>
        /\ ret'.outcome = "raised"
        /\ \A t \in TracesOf(ret'.self) : ChildrenOf(t)' = ChildrenOf(t)]_vars

\* C8: every trace has a duration >= 0 and a builder whose end_time is not
\* before its start_time.
C8_DurationNonNegative ==
    \A t \in TraceIds :
        /\ traces[t].duration >= 0
        /\ builders[traces[t].trace_builder].end_time
             >= builders[traces[t].trace_builder].start_time

\* C9: every trace's duration is the end_time minus the start_time that its
\* structured record reports.
C9_DurationIsEndMinusStart ==
    \A t \in TraceIds :
        traces[t].duration
          = ParseTime(TraceDict(t).end_time) - ParseTime(TraceDict(t).start_time)

\* The places <<builder, position>> of the child lists that hold trace t.
Occurrences(t) ==
    {p \in BuilderIds \X (1..MaxChildren) :
        /\ p[2] <= Len(builders[p[1]].child_traces)
        /\ builders[p[1]].child_traces[p[2]] = t}

\* The traces reachable from the traces S through at most n child lists.
RECURSIVE Descendants(_, _)
Descendants(S, n) ==
    IF n = 0 THEN {}
    ELSE LET kids == {c \in TraceIds : \E t \in S : \E i \in 1..Len(ChildrenOf(t)) :
                          ChildrenOf(t)[i] = c}
         IN kids \cup Descendants(kids, n - 1)

\* C10: ownership is tree-shaped: a trace occurs at most once in all the
\* child lists, and no trace is reachable from itself through child lists.
C10_OwnershipIsATree ==
    \A t \in TraceIds :
        /\ Cardinality(Occurrences(t)) <= 1
        /\ t \notin Descendants({t}, MaxTraces)

\* C11: Trace.json returns for every trace: it never raises.
C11_JsonNeverRaises ==
    \A t \in TraceIds : to_json(t).outcome = "returned"

\* The keys of an encoded object are the keys of the mapping, in order.
KeysKept(items, n) ==
    /\ n.kind = "obj"
    /\ Len(n.items) = Len(items)
    /\ \A i \in DOMAIN items : n.items[i][1] = items[i][1]

RecordKeys ==
    <<"function_name", "status", "start_time", "end_time", "duration",
      "attributes", "return_value", "children">>

\* Node n is what the fallback has to give for value o, at every level:
\* the structured record for a Trace; else the field mapping, with every
\* key, for an object that has one; else the debug string.  What is
\* natively representable is rendered as it is.
RECURSIVE Fallback(_, _), RecordRendered(_, _)
Fallback(o, n) ==
    CASE o.tag = "plain" -> n.kind = "prim"
      [] o.tag = "str" -> n = JString(o.v)
      [] o.tag = "Trace" -> RecordRendered(TraceOf(o), n)
      [] o.tag = "dict" ->
           /\ KeysKept(MappingItems(o), n)
           /\ \A i \in DOMAIN n.items : Fallback(MappingItems(o)[i][2], n.items[i][2])
      [] o.tag = "object" ->
           /\ KeysKept(DunderDict(o), n)
           /\ \A i \in DOMAIN n.items : Fallback(DunderDict(o)[i][2], n.items[i][2])
      [] OTHER -> n = JString(Repr(o))

RecordRendered(t, n) ==
    LET r == TraceDict(t) IN
    /\ n.kind = "obj"
    /\ [i \in DOMAIN n.items |-> n.items[i][1]] = RecordKeys
    /\ n.items[2][2] = JString(r.status)
    /\ KeysKept(r.attributes, n.items[6][2])
    /\ \A i \in DOMAIN r.attributes :
          Fallback(r.attributes[i][2], n.items[6][2].items[i][2])
    /\ Fallback(r.return_value, n.items[7][2])
    /\ n.items[8][2].kind = "arr"
    /\ Len(n.items[8][2].items) = Len(r.children)
    /\ \A i \in DOMAIN r.children :
          RecordRendered(r.children[i], n.items[8][2].items[i][2])

\* C12: in what Trace.json renders, every value that is not natively
\* representable is replaced, at every nesting level of attributes and
\* return_value, by its structured record if it is a Trace, else by its
\* field mapping if it has one, else by its debug string; every key of the
\* attributes and of every mapping is in the output.
C12_FallbackPriorityAtEveryLevel ==
    \A t \in TraceIds :
        to_json(t).outcome = "returned" => RecordRendered(t, JsonData(t))

\* A rendered trace with a child (a Trace), an attribute that is an object
\* holding another object and a result, and a result as return value.
C12_Witness ==
    \E t \in TraceIds :
        /\ ret.op = "json" /\ ret.self = t /\ ret.outcome = "returned"
        /\ Len(ChildrenOf(t)) >= 1
        /\ AttributesOf(t) = << <<"arg.a", Object("Request")>> >>
        /\ TraceDict(t).return_value = ErrValue

\* The name of a frame: "TypeName.function" for a frame with a self (a
\* method) or else with a cls (a classmethod), the bare function name for
\* any other.
NameOf(fr) ==
    IF fr.self # "None" THEN fr.self \o "." \o fr.function
    ELSE IF fr.cls # "None" THEN fr.cls \o "." \o fr.function
    ELSE fr.function

C14_ConstructorAlwaysSucceeds ==
    [][ret'.op = "create" =>
        /\ ret'.outcome = "returned"
        /\ Len(ret'.frames) < 3 => builders'[ret'.self].func_name = "<N/A>"]_vars

\* C15: a builder that is not finalized has an end_time equal to its
\* start_time.
C15_OpenEndTimeIsStartTime ==
    \A b \in BuilderIds :
        ~Finalized(b) => builders[b].end_time = builders[b].start_time

\* C16: the log of a child with status ERROR returns the child's value and
\* alters no trace; the status of a trace is a function of its own value (two
\* traces with the same value have the same status), and a trace with a
\* value that is no failure has status OK even with an ERROR child.
C16_ChildStatusIsNotActedOn ==
    [][/\ ret'.op = "log"
          /\ traces[builders'[ret'.self].child_traces[
                       Len(builders'[ret'.self].child_traces)]].status = "ERROR"
          => /\ ret'.outcome = "returned"
             /\ ret'.value = traces[builders'[ret'.self].child_traces[
                                       Len(builders'[ret'.self].child_traces)]].return_value
             /\ traces' = traces
       /\ \A p, q \in 1..Len(traces') :
             traces'[p].return_value = traces'[q].return_value
               => traces'[p].status = traces'[q].status
       /\ \A p \in 1..Len(traces') :
             /\ traces'[p].return_value.tag # "Err"
             /\ \E i \in DOMAIN ChildrenOf(p)' : traces'[ChildrenOf(p)'[i]].status = "ERROR"
             => traces'[p].status = "OK"]_vars

\* A parent that logged the ERROR child of another builder, then bound a
\* value that is no failure.
C16_Witness ==
    \E p, c \in TraceIds :
        /\ traces[p].trace_builder # traces[c].trace_builder
        /\ traces[c].status = "ERROR"
        /\ ChildrenOf(p) = <<c>>
        /\ p > c
        /\ traces[p].return_value = OkValue
        /\ traces[p].status = "OK"

\* C17: a set_attribute on one builder changes neither the attributes of
\* another builder, nor those of the trace of another builder, nor a
\* mapping that belongs to the caller.
C17_BuildersAreIsolated ==
    [][ret'.op = "set_attribute" =>
        /\ \A b \in BuilderIds \ {ret'.self} :
            dicts'[builders'[b].attributes].items = dicts[builders[b].attributes].items
        /\ \A t \in TraceIds :
            traces[t].trace_builder # ret'.self => AttributesOf(t)' = AttributesOf(t)
        /\ \A d \in DictIds : dicts[d].owner = "caller" => dicts'[d] = dicts[d]]_vars

\* C18: on a builder that is not finalized, a set_attribute leaves every
\* key but one, the children, the name and the times as they were; a log
\* leaves the attributes, the name, the times and every child logged before
\* as they were.
C18_MutationsChangeOnlyTheirField ==
    [][~Finalized(ret'.self) =>
        /\ ret'.op = "set_attribute" =>
            /\ builders'[ret'.self] = builders[ret'.self]
            /\ \E k \in Keys : \A j \in Keys \ {k} :
                LET old == dicts[builders[ret'.self].attributes].items
                    new == dicts'[builders[ret'.self].attributes].items
                IN /\ DictHas(new, j) <=> DictHas(old, j)
                   /\ DictHas(old, j) => DictGet(new, j) = DictGet(old, j)
        /\ ret'.op = "log" =>
            /\ dicts' = dicts
            /\ builders'[ret'.self].attributes = builders[ret'.self].attributes
            /\ builders'[ret'.self].func_name = builders[ret'.self].func_name
            /\ builders'[ret'.self].start_time = builders[ret'.self].start_time
            /\ builders'[ret'.self].end_time = builders[ret'.self].end_time
            /\ \A i \in DOMAIN builders[ret'.self].child_traces :
                builders'[ret'.self].child_traces[i] = builders[ret'.self].child_traces[i]]_vars

\* A set_attribute on an open builder that has a child and two keys.
C18_Witness ==
    /\ ret.op = "set_attribute"
    /\ ~Finalized(ret.self)
    /\ Len(builders[ret.self].child_traces) >= 1
    /\ Len(dicts[builders[ret.self].attributes].items) = 2
====
